---- MODULE Spec2Model ----
(***************************************************************************)
(* A model of verydisco's schema parser (src/src/verydisco/schemas.py).    *)
(*                                                                         *)
(* Python values are modelled as follows.                                  *)
(*   - A str is a sequence of one-character strings, so that the           *)
(*     character-level operations of the code (capitalize, quoting,        *)
(*     appending "_") are computed and not assumed.                        *)
(*   - None is the one-element sequence <<"none">>, which is no str since  *)
(*     its element is not a single character.                              *)
(*   - A JSON dict is a function from its keys (TLA+ strings) to values; a *)
(*     key that is absent is absent from the DOMAIN.                       *)
(*   - An insertion-ordered dict whose order matters (a "properties"       *)
(*     mapping, the schemas mapping, model_defs, local_context) is a       *)
(*     sequence of <<key, value>> pairs with distinct keys.                *)
(*   - A JSON scalar used as a "default" is tagged with its Python type:   *)
(*     <<"str", s>>, <<"int", n>>, <<"bool", b>>; JSON null is None.       *)
(*   - The text generated for one model is kept as its pieces              *)
(*     [cls, docstring, body]: the name after "class ", the formatted      *)
(*     docstring and the sequence of body lines as rendered text.          *)
(***************************************************************************)
EXTENDS Integers, Sequences, FiniteSets, TLC

VARIABLES
    schemas,        \* build: the input mapping name -> schema, in order
    pc,             \* position in build_models / write_models, or in a call
    parse_i,        \* build: index of the next schemas entry to parse
    model_defs,     \* build: SchemaParser.model_defs
    inserts,        \* build: history of the assignments model_defs[k] = v
    def_i,          \* build: index of the next model_defs entry to exec
    local_context,  \* build: build_models' local_context
    res_i,          \* build: index of the next local_context entry to resolve
    returned,       \* build: the mapping build_models returned, or None
    sink,           \* build: what write_models wrote to fh, or None
    exc,            \* build: the exception that ended the call, or "none"
    fn,             \* call: the method applied
    args,           \* call: its arguments
    ret             \* call: its result (None before the call)

vars == <<schemas, pc, parse_i, model_defs, inserts, def_i, local_context,
          res_i, returned, sink, exc, fn, args, ret>>

idleVars == <<schemas, parse_i, model_defs, inserts, def_i, local_context,
              res_i, returned, sink, exc>>

callVars == <<fn, args, ret>>

----------------------------------------------------------------------------
(* Python values *)

None == <<"none">>

EmptyDict == [k \in {} |-> 0]

\* dict.get(key, default)
Get(d, key, default) == IF key \in DOMAIN d THEN d[key] ELSE default

\* Truth value of an Optional[str]: None and "" are false.
Truthy(s) == s # None /\ s # <<>>

s_any == <<"a", "n", "y">>
s_boolean == <<"b", "o", "o", "l", "e", "a", "n">>
s_integer == <<"i", "n", "t", "e", "g", "e", "r">>
s_null == <<"n", "u", "l", "l">>
s_number == <<"n", "u", "m", "b", "e", "r">>
s_string == <<"s", "t", "r", "i", "n", "g">>
s_object == <<"o", "b", "j", "e", "c", "t">>
s_array == <<"a", "r", "r", "a", "y">>
s_Any == <<"A", "n", "y">>
s_bool == <<"b", "o", "o", "l">>
s_int == <<"i", "n", "t">>
s_None == <<"N", "o", "n", "e">>
s_float == <<"f", "l", "o", "a", "t">>
s_str == <<"s", "t", "r">>
s_List == <<"L", "i", "s", "t">>
s_True == <<"T", "r", "u", "e">>
s_False == <<"F", "a", "l", "s", "e">>
s_pass == <<"p", "a", "s", "s">>
s_class == <<"c", "l", "a", "s", "s">>
s_dir == <<"d", "i", "r">>
s_id == <<"i", "d">>
s_foo == <<"f", "o", "o">>
s_bar == <<"b", "a", "r">>
s_fooBar == <<"f", "o", "o", "B", "a", "r">>
s_weird == <<"w", "e", "i", "r", "d">>
s_A == <<"A">>
s_B == <<"B">>
s_C == <<"C">>
s_Doc == <<"D", "o", "c", ".">>

DQ == <<"\"">>
SQ == <<"'">>
Underscore == <<"_">>

LowerCase == <<"a", "b", "c", "d", "e", "f", "g", "h", "i", "j", "k", "l", "m",
               "n", "o", "p", "q", "r", "s", "t", "u", "v", "w", "x", "y", "z">>
UpperCase == <<"A", "B", "C", "D", "E", "F", "G", "H", "I", "J", "K", "L", "M",
               "N", "O", "P", "Q", "R", "S", "T", "U", "V", "W", "X", "Y", "Z">>
Digits == <<"0", "1", "2", "3", "4", "5", "6", "7", "8", "9">>

Upper(c) ==
    IF \E i \in 1..Len(LowerCase) : LowerCase[i] = c
    THEN UpperCase[CHOOSE i \in 1..Len(LowerCase) : LowerCase[i] = c]
    ELSE c

Lower(c) ==
    IF \E i \in 1..Len(UpperCase) : UpperCase[i] = c
    THEN LowerCase[CHOOSE i \in 1..Len(UpperCase) : UpperCase[i] = c]
    ELSE c

\* str.capitalize(): first character upper-cased, the rest lower-cased.
Capitalize(s) ==
    [i \in 1..Len(s) |-> IF i = 1 THEN Upper(s[i]) ELSE Lower(s[i])]

\* repr() of a JSON scalar: a str in single quotes (the model's strings hold
\* no quote or backslash), an int in decimal (0..9 here), a bool by name.
Repr(v) ==
    CASE v[1] = "str"  -> SQ \o v[2] \o SQ
      [] v[1] = "int"  -> <<Digits[v[2] + 1]>>
      [] v[1] = "bool" -> IF v[2] THEN s_True ELSE s_False

----------------------------------------------------------------------------
(* Insertion-ordered dicts *)

Keys(d) == [i \in 1..Len(d) |-> d[i][1]]

KeySet(d) == {d[i][1] : i \in 1..Len(d)}

HasKey(d, k) == \E i \in 1..Len(d) : d[i][1] = k

Lookup(d, k) == d[CHOOSE i \in 1..Len(d) : d[i][1] = k][2]

DictSetMoveToEnd(d, k, v) ==
    Append(SelectSeq(d, LAMBDA e : e[1] # k), <<k, v>>)

\* d[k] = v: an existing key keeps its position and takes the new value, a
\* new key goes last.
DictSet(d, k, v) ==
    IF HasKey(d, k)
    THEN [i \in 1..Len(d) |-> IF d[i][1] = k THEN <<k, v>> ELSE d[i]]
    ELSE Append(d, <<k, v>>)

----------------------------------------------------------------------------
(* SchemaParser *)

RECURSIVE schema_as_string(_, _, _)
RECURSIVE parse_property(_, _, _)
RECURSIVE parse_properties(_, _, _)

\* SchemaParser.simple_types
simple_types ==
    (s_any :> s_Any) @@ (s_boolean :> s_bool) @@ (s_integer :> s_int) @@
    (s_null :> s_None) @@ (s_number :> s_float) @@ (s_string :> s_str)

\* keyword.kwlist, of which the model keeps a sample.
kwlist == {s_class, s_None, s_True}

\* dir(builtins), of which the model keeps a sample.
dir_builtins == {s_dir, s_id, s_None, s_True, s_int, s_str}

python_keywords_kwlist_only == kwlist

\* SchemaParser.python_keywords
python_keywords == kwlist \cup dir_builtins

\* SchemaParser.valid_property_name
valid_property_name(name) ==
    IF name \in python_keywords THEN name \o Underscore ELSE name

indent == <<" ", " ", " ", " ">>

NL == <<"\n">>

TQ == DQ \o DQ \o DQ

max_line_length == 80

\* textwrap.TextWrapper(subsequent_indent=indent).fill(text) for a text that
\* fits the wrapper's width and holds single spaces only (every description
\* of the model): the text comes back as one unbroken line.
Fill(text, subsequent_indent) == text

\* SchemaParser.format_docstring
format_docstring(text, ind) ==
    IF text # <<>>
    THEN LET result == ind \o TQ \o Fill(text, ind)
         IN  IF Len(result) > max_line_length - Len(TQ)
             THEN result \o NL \o ind \o TQ \o NL
             ELSE result \o TQ \o NL
    ELSE <<>>

\* The parser object: model_defs, and the history of assignments to it.
NewParser == [model_defs |-> <<>>, inserts |-> <<>>]

\* self.model_defs[id_] = result
Register(self, id_, model_string) ==
    [model_defs |-> DictSet(self.model_defs, id_, model_string),
     inserts    |-> Append(self.inserts, <<id_, model_string>>)]

FinalNameClassFirst(id_, class_name, properties) ==
    IF Truthy(class_name) THEN class_name
    ELSE IF Truthy(id_) THEN id_
    ELSE Underscore

RECURSIVE JoinCapitalized(_)
\* "".join(name.capitalize() for name, _, _ in properties)
JoinCapitalized(properties) ==
    IF properties = <<>> THEN <<>>
    ELSE Capitalize(properties[1][1]) \o JoinCapitalized(Tail(properties))

\* The name schema_as_string settles on (the value of id_ at line 103).
FinalName(id_, class_name, properties) ==
    IF ~Truthy(id_)
    THEN IF Truthy(class_name)
         THEN class_name
         ELSE Underscore \o JoinCapitalized(properties)
    ELSE id_

FieldLineRawTruth(name, type_, default) ==
    IF default # None /\ default \notin {SQ \o SQ, <<"0">>, s_False}
    THEN name \o <<":", " ">> \o type_ \o <<" ", "=", " ">> \o default
    ELSE name \o <<":", " ">> \o type_

\* The line of one property: f"{name}: {type_} = {default}" or
\* f"{name}: {type_}".
FieldLine(name, type_, default) ==
    IF Truthy(default)
    THEN name \o <<":", " ">> \o type_ \o <<" ", "=", " ">> \o default
    ELSE name \o <<":", " ">> \o type_

\* The body lines of a model: one per property, or "pass".
BodyLines(properties, docstring) ==
    LET lines == [i \in 1..Len(properties) |->
                    FieldLine(properties[i][1], properties[i][2],
                              properties[i][3])]
    IN  IF properties = <<>> /\ docstring = <<>>
        THEN Append(lines, s_pass)
        ELSE lines

RaiseSwallowed(self, e) ==
    [self |-> self, type |-> s_Any, default |-> None, exc |-> "none"]

\* An exception leaving parse_property: no type, no default, the parser as
\* it was when the exception was raised.
Raise(self, e) == [self |-> self, type |-> None, default |-> None, exc |-> e]

\* The loop of schema_as_string over schema["properties"].items(), from
\* entry i on, with the (name, type_, default) items collected so far.
parse_properties(st, props, i) ==
    IF st.exc # "none" \/ i > Len(props) THEN st
    ELSE LET pname == valid_property_name(props[i][1])
             r     == parse_property(st.self, props[i][2], pname)
         IN  parse_properties(
                 [self       |-> r.self,
                  properties |-> IF r.exc = "none"
                                 THEN Append(st.properties,
                                             <<pname, r.type, r.default>>)
                                 ELSE st.properties,
                  exc        |-> r.exc],
                 props, i + 1)

\* SchemaParser.schema_as_string
schema_as_string(self, schema, class_name) ==
    LET description == Get(schema, "description", <<>>)
        docstring   == format_docstring(description, indent)
        id0         == Get(schema, "id", None)
        start       == [self |-> self, properties |-> <<>>, exc |-> "none"]
        walk        == IF "properties" \in DOMAIN schema
                       THEN parse_properties(start, schema["properties"], 1)
                       ELSE start
    IN  IF walk.exc # "none"
        THEN [self |-> walk.self, exc |-> walk.exc]
        ELSE LET id_ == FinalName(id0, class_name, walk.properties)
                 model_string ==
                     [cls       |-> id_,
                      docstring |-> docstring,
                      body      |-> BodyLines(walk.properties, docstring)]
             IN  [self |-> Register(walk.self, id_, model_string),
                  exc  |-> "none"]

\* class_name = f"_{name}"
ObjectClassName(name) == Underscore \o name

\* f'"{name}"': a forward reference, the name in double quotes.
Quoted(name) == DQ \o name \o DQ

\* f"List[{py_type}]"
ListOf(py_type) == s_List \o <<"[">> \o py_type \o <<"]">>

\* SchemaParser.parse_property
parse_property(self, schema, name) ==
    IF "type" \notin DOMAIN schema /\ "$ref" \notin DOMAIN schema
    THEN Raise(self, "KeyError")
    ELSE
    LET type_ == IF "type" \in DOMAIN schema
                 THEN schema["type"] ELSE schema["$ref"]
    IN  IF type_ \in DOMAIN simple_types
        THEN LET default == Get(schema, "default", None)
             IN  [self    |-> self,
                  type    |-> simple_types[type_],
                  default |-> IF default # None THEN Repr(default) ELSE None,
                  exc     |-> "none"]
        ELSE IF type_ = s_object
        THEN LET class_name == ObjectClassName(name)
                 r == schema_as_string(self, schema, class_name)
             IN  IF r.exc # "none"
                 THEN Raise(r.self, r.exc)
                 ELSE [self    |-> r.self,
                       type    |-> Quoted(class_name),
                       default |-> None,
                       exc     |-> "none"]
        ELSE IF type_ = s_array
        THEN IF "items" \notin DOMAIN schema
             THEN Raise(self, "KeyError")
             ELSE LET r == parse_property(self, schema["items"], name)
                  IN  IF r.exc # "none"
                      THEN r
                      ELSE [r EXCEPT !.type = ListOf(r.type)]
        ELSE [self    |-> self,
              type    |-> Quoted(type_),
              default |-> None,
              exc     |-> "none"]

----------------------------------------------------------------------------
(* Inputs *)

\* Largest nesting of object and array nodes below a field node.
MaxDepth == 1

\* Largest number of properties of a schema handed to schema_as_string.
MaxProps == 2

\* Largest number of entries of the schemas mapping.
MaxSchemas == 2

SimpleTypeNames == {s_any, s_boolean, s_integer, s_null, s_number, s_string}

\* Values of a "default" key; None is JSON null.
Defaults ==
    {None, <<"str", s_bar>>, <<"str", <<>>>>, <<"int", 0>>, <<"int", 7>>,
     <<"bool", FALSE>>, <<"bool", TRUE>>}

\* Values of a "$ref" key: names of schemas, some of which are also words
\* of the type vocabulary or names bound in the module.
RefTargets == {s_A, s_B, s_Any, s_string, s_integer, s_object, s_array}

SimpleNodes ==
    {("type" :> t) : t \in SimpleTypeNames} \cup
    {("type" :> t) @@ ("default" :> d) : t \in SimpleTypeNames, d \in Defaults}

RefNodes ==
    {("$ref" :> r) : r \in RefTargets} \cup
    {("$ref" :> s_A) @@ ("default" :> <<"str", s_bar>>),
     ("$ref" :> s_A) @@ ("description" :> s_Doc),
     ("$ref" :> s_A) @@ ("type" :> s_string),
     ("type" :> s_weird)}

\* Nodes with neither "type" nor "$ref".
UntypedNodes == {EmptyDict, ("description" :> s_Doc)}

LeafNodes == SimpleNodes \cup RefNodes \cup UntypedNodes

\* Raw property names: plain, mixed case, a builtin and a keyword.
PropNames == {s_foo, s_fooBar, s_dir, s_class}

Ids == {None, <<>>, s_B}

WithId(node, id) == IF id = None THEN node ELSE node @@ ("id" :> id)

\* One level of nesting around a field node: an array of it, or an object
\* that holds it as its one property.
Wrappers ==
    {[kind |-> "array", name |-> <<>>, id |-> None]} \cup
    {[kind |-> "object", name |-> n, id |-> i] : n \in PropNames, i \in Ids}

Wrap(w, node) ==
    IF w.kind = "array"
    THEN ("type" :> s_array) @@ ("items" :> node)
    ELSE WithId(("type" :> s_object)
                @@ ("properties" :> << <<w.name, node>> >>), w.id)

\* Arrays and objects that hold no node.
ChildlessNodes ==
    {("type" :> s_array)} \cup
    {("$ref" :> s_array) @@ ("items" :> s) : s \in UntypedNodes} \cup
    {WithId(("type" :> s_object), id) : id \in Ids} \cup
    {WithId(("type" :> s_object) @@ ("properties" :> <<>>), id) : id \in Ids}

BaseNodes == LeafNodes \cup ChildlessNodes

RECURSIVE Nest(_, _, _, _)
\* node wrapped in ws[i], then in ws[i+1], ..., then in ws[k].
Nest(ws, i, k, node) ==
    IF i > k THEN node ELSE Nest(ws, i + 1, k, Wrap(ws[i], node))

\* The nodes of the properties of a schema handed to schema_as_string.
CallNodes ==
    {("type" :> s_string),
     ("type" :> s_string) @@ ("default" :> <<"str", s_bar>>),
     ("type" :> s_string) @@ ("default" :> <<"str", <<>>>>),
     ("type" :> s_integer) @@ ("default" :> <<"int", 0>>),
     ("type" :> s_null) @@ ("default" :> None),
     ("$ref" :> s_A),
     ("type" :> s_object) @@ ("properties" :> << <<s_bar, ("type" :> s_string)>> >>),
     EmptyDict}

CallPropNames == {s_foo, s_fooBar, s_dir}

DistinctKeys(d) == \A i, j \in 1..Len(d) : d[i][1] = d[j][1] => i = j

\* A schema handed to schema_as_string: with or without "description",
\* "properties" and "id".
CallSchema(described, keyed, props, id) ==
    WithId((IF described THEN ("description" :> s_Doc)
                         ELSE ("type" :> s_object))
           @@ (IF keyed THEN ("properties" :> props) ELSE EmptyDict),
           id)

\* Values of schema_as_string's class_name: omitted (None), empty, a name.
ClassNames == {None, <<>>, s_A}

\* A model string registered by an earlier call.
OldModel == [cls |-> s_A, docstring |-> <<>>, body |-> <<s_pass>>]

\* The parser a method is applied to: new, or one that holds two records.
Parsers ==
    {NewParser,
     Register(Register(NewParser, Underscore \o s_foo,
                       [OldModel EXCEPT !.cls = Underscore \o s_foo]),
              s_A, OldModel)}

\* The name argument of parse_property is a sanitized property name.
CallNames == {valid_property_name(n) : n \in {s_foo, s_dir}}

RawNames ==
    PropNames \cup {s_id, s_None, s_int, <<>>, s_dir \o Underscore, s_A}

----------------------------------------------------------------------------
(* Calls of single methods *)

Idle ==
    /\ schemas = <<>>
    /\ parse_i = 1
    /\ model_defs = <<>>
    /\ inserts = <<>>
    /\ def_i = 1
    /\ local_context = <<>>
    /\ res_i = 1
    /\ returned = None
    /\ sink = None
    /\ exc = "none"

InitCall ==
    /\ Idle
    /\ pc = "call"
    /\ ret = None
    /\ \/ /\ fn = "parse_property"
          /\ \E self \in Parsers, name \in CallNames, k \in 0..MaxDepth :
                \E ws \in [1..k -> Wrappers], node \in BaseNodes :
                    args = [self   |-> self,
                            schema |-> Nest(ws, 1, k, node),
                            name   |-> name]
       \/ /\ fn = "schema_as_string"
          /\ \E self \in Parsers, class_name \in ClassNames, id \in Ids,
                described \in BOOLEAN, keyed \in BOOLEAN, n \in 0..MaxProps :
                \E names \in [1..n -> CallPropNames],
                   nodes \in [1..n -> CallNodes] :
                    /\ keyed \/ n = 0
                    /\ \A i, j \in 1..n : names[i] = names[j] => i = j
                    /\ args = [self       |-> self,
                               schema     |-> CallSchema(
                                   described, keyed,
                                   [i \in 1..n |-> <<names[i], nodes[i]>>],
                                   id),
                               class_name |-> class_name]
       \/ /\ fn = "valid_property_name"
          /\ args \in [name : RawNames]

Call_parse_property ==
    /\ fn = "parse_property"
    /\ pc = "call"
    /\ pc' = "return"
    /\ ret' = parse_property(args.self, args.schema, args.name)
    /\ UNCHANGED <<fn, args>>
    /\ UNCHANGED idleVars

Call_schema_as_string ==
    /\ fn = "schema_as_string"
    /\ pc = "call"
    /\ pc' = "return"
    /\ ret' = schema_as_string(args.self, args.schema, args.class_name)
    /\ UNCHANGED <<fn, args>>
    /\ UNCHANGED idleVars

Call_valid_property_name ==
    /\ fn = "valid_property_name"
    /\ pc = "call"
    /\ pc' = "return"
    /\ ret' = valid_property_name(args.name)
    /\ UNCHANGED <<fn, args>>
    /\ UNCHANGED idleVars

NextCall ==
    \/ Call_parse_property
    \/ Call_schema_as_string
    \/ Call_valid_property_name

SpecCall == InitCall /\ [][NextCall]_vars

----------------------------------------------------------------------------
(* Properties of single methods, checked under SpecCall *)

Returned(f) == pc = "return" /\ fn = f

IsSimpleNode(schema) ==
    "type" \in DOMAIN schema /\ schema["type"] \in SimpleTypeNames

IsRefOnlyNode(schema) ==
    "type" \notin DOMAIN schema /\ "$ref" \in DOMAIN schema

LastInsert(self) == self.inserts[Len(self.inserts)]

\* C10: valid_property_name returns, for a name that is a reserved word or a
\* builtin identifier, the name followed by exactly one "_", and any other
\* name unchanged.
C10_SanitizerAppendsOneMarker ==
    Returned("valid_property_name") =>
        LET name == args.name
        IN  IF name \in kwlist \/ name \in dir_builtins
            THEN /\ Len(ret) = Len(name) + 1
                 /\ SubSeq(ret, 1, Len(name)) = name
                 /\ ret[Len(ret)] = "_"
            ELSE ret = name

C10_Witness ==
    /\ Returned("valid_property_name")
    /\ args.name = s_dir
    /\ ret = <<"d", "i", "r", "_">>

RECURSIVE ConcatCapitalizedSanitized(_)
ConcatCapitalizedSanitized(props) ==
    IF props = <<>> THEN <<>>
    ELSE Capitalize(valid_property_name(props[1][1]))
         \o ConcatCapitalizedSanitized(Tail(props))

\* The name chosen by the precedence id, class name, synthesized name, where
\* an empty class name counts as supplied or not.
NameByPrecedence(schema, class_name, emptyIsSupplied) ==
    LET id0 == Get(schema, "id", None)
    IN  IF id0 # None /\ id0 # <<>>
        THEN id0
        ELSE IF class_name # None /\ (emptyIsSupplied \/ class_name # <<>>)
        THEN class_name
        ELSE Underscore
             \o ConcatCapitalizedSanitized(Get(schema, "properties", <<>>))

RegistersUnder(final) ==
    /\ Len(ret.self.inserts) > Len(args.self.inserts)
    /\ LastInsert(ret.self)[1] = final
    /\ LastInsert(ret.self)[2].cls = final
    /\ HasKey(ret.self.model_defs, final)
    /\ Lookup(ret.self.model_defs, final).cls = final

\* C5 as stated: the final name is the node's id when non-empty, otherwise
\* the class name whenever one is supplied, otherwise the synthesized name;
\* it is both the Registry key and the name of the emitted definition.
C5_AnySuppliedClassNameWins ==
    (Returned("schema_as_string") /\ ret.exc = "none") =>
        RegistersUnder(NameByPrecedence(args.schema, args.class_name, TRUE))

\* C5 as amended: the final name is the node's id when non-empty, otherwise
\* the class name when a non-empty one is supplied, otherwise "_" followed by
\* the capitalized sanitized names of the immediate fields in property
\* order; it is both the Registry key and the name of the emitted definition.
C5_FinalNamePrecedence ==
    (Returned("schema_as_string") /\ ret.exc = "none") =>
        RegistersUnder(NameByPrecedence(args.schema, args.class_name, FALSE))

C5_Witness ==
    /\ Returned("schema_as_string")
    /\ ret.exc = "none"
    /\ args.class_name = None
    /\ "id" \notin DOMAIN args.schema
    /\ "properties" \in DOMAIN args.schema
    /\ Keys(args.schema["properties"]) = <<s_fooBar, s_dir>>
    /\ LastInsert(ret.self)[1] =
           <<"_", "F", "o", "o", "b", "a", "r", "D", "i", "r", "_">>

\* C7: for a field node with no "type" and "$ref" = r, parse_property returns
\* the quoted name r with no default and registers no record.
C7_RefIsNamedReference ==
    (Returned("parse_property") /\ IsRefOnlyNode(args.schema)) =>
        /\ ret.exc = "none"
        /\ ret.type = DQ \o args.schema["$ref"] \o DQ
        /\ ret.default = None
        /\ ret.self = args.self

\* The fixed table of C8.
PrimitiveOf(t) ==
    CASE t = s_boolean -> s_bool
      [] t = s_integer -> s_int
      [] t = s_string  -> s_str
      [] t = s_number  -> s_float
      [] t = s_null    -> s_None
      [] t = s_any     -> s_Any

DeclaresDefault(schema, nullIsDeclared) ==
    /\ "default" \in DOMAIN schema
    /\ nullIsDeclared \/ schema["default"] # None

Rendering(v) == IF v = None THEN s_None ELSE Repr(v)

SimpleFieldLine(name, schema, nullIsDeclared) ==
    name \o <<":", " ">> \o PrimitiveOf(schema["type"]) \o
    (IF DeclaresDefault(schema, nullIsDeclared)
     THEN <<" ", "=", " ">> \o Rendering(schema["default"])
     ELSE <<>>)

SimpleTypeContract(nullIsDeclared) ==
    /\ (Returned("parse_property") /\ IsSimpleNode(args.schema)) =>
          /\ ret.exc = "none"
          /\ ret.type = PrimitiveOf(args.schema["type"])
          /\ ret.self = args.self
    /\ (Returned("schema_as_string") /\ ret.exc = "none") =>
          LET props == Get(args.schema, "properties", <<>>)
              body  == LastInsert(ret.self)[2].body
          IN  \A i \in 1..Len(props) :
                  IsSimpleNode(props[i][2]) =>
                      body[i] = SimpleFieldLine(
                                    valid_property_name(props[i][1]),
                                    props[i][2], nullIsDeclared)

\* C8 as stated: a simple-typed node resolves to the primitive of the table
\* and registers nothing, and its field line carries a default exactly when
\* the node has a "default" key, the rendering of its value.
C8_DefaultWheneverDeclared == SimpleTypeContract(TRUE)

\* C8 as amended: a simple-typed node resolves to the primitive of the table
\* and registers nothing, and its field line carries a default exactly when
\* the node declares a default other than null, the repr of its value.
C8_SimpleTypesAndDefaults == SimpleTypeContract(FALSE)

C8_Witness ==
    /\ Returned("schema_as_string")
    /\ ret.exc = "none"
    /\ "properties" \in DOMAIN args.schema
    /\ Len(args.schema["properties"]) = 2
    /\ args.schema["properties"][1] =
           <<s_foo, ("type" :> s_string) @@ ("default" :> <<"str", <<>>>>)>>
    /\ args.schema["properties"][2] =
           <<s_dir, ("type" :> s_integer) @@ ("default" :> <<"int", 0>>)>>
    /\ LastInsert(ret.self)[2].body =
           << <<"f", "o", "o", ":", " ", "s", "t", "r", " ", "=", " ", "'", "'">>,
              <<"d", "i", "r", "_", ":", " ", "i", "n", "t", " ", "=", " ", "0">> >>

\* C9: for a node of type "array", parse_property returns List[T] with
\* default d, where (T, d) is what its items resolve to under the same field
\* name; items that are a "$ref" to r give List["r"].
C9_ArrayWrapsItems ==
    (/\ Returned("parse_property")
     /\ "type" \in DOMAIN args.schema
     /\ args.schema["type"] = s_array
     /\ "items" \in DOMAIN args.schema) =>
        LET items == args.schema["items"]
            item  == parse_property(args.self, items, args.name)
        IN  /\ item.exc = "none" =>
                  /\ ret.exc = "none"
                  /\ ret.type = s_List \o <<"[">> \o item.type \o <<"]">>
                  /\ ret.default = item.default
            /\ IsRefOnlyNode(items) =>
                  ret.type = s_List \o <<"[">> \o DQ \o items["$ref"] \o DQ
                             \o <<"]">>

\* C2: for a field node of type "object", whatever its other keys,
\* parse_property registers a record under "_" + the sanitized field name
\* and returns the quoted form of that key, a key of the Registry.
C2_NestedObjectRegisteredUnderMarker ==
    (/\ Returned("parse_property")
     /\ "type" \in DOMAIN args.schema
     /\ args.schema["type"] = s_object
     /\ ret.exc = "none") =>
        LET key == Underscore \o args.name
        IN  /\ ret.type = DQ \o key \o DQ
            /\ HasKey(ret.self.model_defs, key)
            /\ LastInsert(ret.self)[1] = key

----------------------------------------------------------------------------
(* build_models and write_models *)

Obj(props) == ("type" :> s_object) @@ ("properties" :> props)

Arr(items) == ("type" :> s_array) @@ ("items" :> items)

Field(name, node) == << <<name, node>> >>

StringNode == ("type" :> s_string)

\* The top-level schemas of the documents: plain, referring, nesting, with an
\* id of their own, and with a field node that has neither "type" nor
\* "$ref" at nesting depths 1 to 3, under "properties" and under "items".
TopSchemas ==
    {("type" :> s_object),
     Obj(Field(s_foo, StringNode @@ ("default" :> <<"str", s_bar>>)))
         @@ ("description" :> s_Doc),
     Obj(Field(s_foo, ("$ref" :> s_A))),
     Obj(Field(s_foo, ("$ref" :> s_B))),
     Obj(Field(s_foo, ("$ref" :> s_Any))),
     Obj(Field(s_foo, Obj(Field(s_bar, StringNode)))),
     Obj(Field(s_foo, Obj(Field(s_bar, ("$ref" :> s_A))))),
     Obj(Field(s_foo, Obj(Field(s_bar, StringNode)) @@ ("id" :> s_B))),
     Obj(Field(s_foo, Arr(("$ref" :> s_B)))),
     Obj(Field(s_foo, EmptyDict)),
     Obj(Field(s_foo, Obj(Field(s_bar, EmptyDict)))),
     Obj(Field(s_foo, Arr(EmptyDict))),
     Obj(Field(s_foo, Arr(Obj(Field(s_bar, EmptyDict))))),
     Obj(Field(s_foo, Obj(Field(s_bar, StringNode)))
         \o Field(s_dir, EmptyDict)),
     Obj(Field(s_foo, StringNode)) @@ ("id" :> s_B)}

TopNames == {s_A, s_B, s_C}

\* A sample of the names bound in the module's namespace (the imports of
\* lines 13-21), the namespace the generated classes are executed in and the
\* one their forward references are evaluated against besides local_context.
ModuleGlobals == {s_Any, s_List}

\* The text between the first and the last double quote of a line.
QuotedPart(line) ==
    LET at == {i \in 1..Len(line) : line[i] = "\""}
        lo == CHOOSE i \in at : \A j \in at : i <= j
        hi == CHOOSE i \in at : \A j \in at : j <= i
    IN  SubSeq(line, lo + 1, hi - 1)

\* The names the annotations of a class body refer to by forward reference:
\* a type is rendered with one quoted name at most, and a repr'd default
\* uses single quotes.
ForwardRefs(body) ==
    {QuotedPart(body[i]) :
        i \in {j \in 1..Len(body) : \E n \in 1..Len(body[j]) : body[j][n] = "\""}}

ExecClassEager(model_string) ==
    [name     |-> model_string.cls,
     refs     |-> ForwardRefs(model_string.body),
     resolved |-> TRUE]

\* exec(compile(model_string)): the class the text defines, its forward
\* references unresolved.
ExecClass(model_string) ==
    [name     |-> model_string.cls,
     refs     |-> ForwardRefs(model_string.body),
     resolved |-> FALSE]

\* Whether update_forward_refs(**localns) of a class finds every name: a
\* forward reference is evaluated in the namespace of the module the class
\* was executed in (the __name__ of global_context), then in localns.
CanResolve(class, localns) ==
    class.refs \subseteq (ModuleGlobals \cup KeySet(localns))

RECURSIVE ConcatSeq(_)
ConcatSeq(ss) == IF ss = <<>> THEN <<>> ELSE ss[1] \o ConcatSeq(Tail(ss))

s_BaseModel ==
    <<"(", "p", "y", "d", "a", "n", "t", "i", "c", ".", "B", "a", "s", "e",
      "M", "o", "d", "e", "l", ")", ":">>

\* The text of a model: the class line, the docstring, the indented lines.
Text(model_string) ==
    s_class \o <<" ">> \o model_string.cls \o s_BaseModel \o NL
    \o model_string.docstring
    \o ConcatSeq([i \in 1..Len(model_string.body) |->
                     indent \o model_string.body[i] \o NL])

RECURSIVE Join(_, _)
\* sep.join(texts)
Join(sep, texts) ==
    IF texts = <<>> THEN <<>>
    ELSE IF Len(texts) = 1 THEN texts[1]
    ELSE texts[1] \o sep \o Join(sep, Tail(texts))

\* The schemas mappings: at most MaxSchemas entries, keys distinct.
Init ==
    /\ \E n \in 0..MaxSchemas :
          \E names \in [1..n -> TopNames], ss \in [1..n -> TopSchemas] :
              /\ \A i, j \in 1..n : names[i] = names[j] => i = j
              /\ schemas = [i \in 1..n |-> <<names[i], ss[i]>>]
    /\ pc = IF schemas = <<>> THEN "parsed" ELSE "parsing"
    /\ parse_i = 1
    /\ model_defs = <<>>
    /\ inserts = <<>>
    /\ def_i = 1
    /\ local_context = <<>>
    /\ res_i = 1
    /\ returned = None
    /\ sink = None
    /\ exc = "none"
    /\ fn = "none"
    /\ args = None
    /\ ret = None

\* One turn of the loop of SchemaParser.__init__.
ParseSchema ==
    /\ pc = "parsing"
    /\ LET r == schema_as_string(
                    [model_defs |-> model_defs, inserts |-> inserts],
                    schemas[parse_i][2], schemas[parse_i][1])
       IN  /\ model_defs' = r.self.model_defs
           /\ inserts' = r.self.inserts
           /\ IF r.exc # "none"
              THEN /\ pc' = "raised"
                   /\ exc' = r.exc
                   /\ UNCHANGED parse_i
              ELSE /\ pc' = IF parse_i = Len(schemas)
                            THEN "parsed" ELSE "parsing"
                   /\ parse_i' = parse_i + 1
                   /\ UNCHANGED exc
    /\ UNCHANGED <<schemas, def_i, local_context, res_i, returned, sink>>
    /\ UNCHANGED callVars

\* One turn of the first loop of build_models.
BuildDefine ==
    /\ pc \in {"parsed", "defining"}
    /\ def_i <= Len(model_defs)
    /\ LET class == ExecClass(model_defs[def_i][2])
       IN  local_context' = DictSet(local_context, class.name, class)
    /\ def_i' = def_i + 1
    /\ pc' = "defining"
    /\ UNCHANGED <<schemas, parse_i, model_defs, inserts, res_i, returned,
                   sink, exc>>
    /\ UNCHANGED callVars

\* One turn of the second loop of build_models.
BuildResolve ==
    /\ pc \in {"defining", "resolving"}
    /\ def_i > Len(model_defs)
    /\ res_i <= Len(local_context)
    /\ IF CanResolve(local_context[res_i][2], local_context)
       THEN /\ local_context' =
                   [local_context EXCEPT ![res_i][2].resolved = TRUE]
            /\ res_i' = res_i + 1
            /\ pc' = "resolving"
            /\ UNCHANGED exc
       ELSE /\ pc' = "raised"
            /\ exc' = "NameError"
            /\ UNCHANGED <<local_context, res_i>>
    /\ UNCHANGED <<schemas, parse_i, model_defs, inserts, def_i, returned,
                   sink>>
    /\ UNCHANGED callVars

\* return local_context
BuildReturn ==
    /\ pc \in {"parsed", "defining", "resolving"}
    /\ def_i > Len(model_defs)
    /\ res_i > Len(local_context)
    /\ returned' = local_context
    /\ pc' = "returned"
    /\ UNCHANGED <<schemas, parse_i, model_defs, inserts, def_i,
                   local_context, res_i, sink, exc>>
    /\ UNCHANGED callVars

\* write_models, once its parser is constructed.
WriteModels ==
    /\ pc = "parsed"
    /\ sink' = Join(NL \o NL, [i \in 1..Len(model_defs) |->
                                  Text(model_defs[i][2])])
    /\ pc' = "written"
    /\ UNCHANGED <<schemas, parse_i, model_defs, inserts, def_i,
                   local_context, res_i, returned, exc>>
    /\ UNCHANGED callVars

Next ==
    \/ ParseSchema
    \/ BuildDefine
    \/ BuildResolve
    \/ BuildReturn
    \/ WriteModels

Spec == Init /\ [][Next]_vars

----------------------------------------------------------------------------
(* Properties of a build, checked under Spec *)

\* C1: the classes are defined in the order of model_defs, and no forward
\* reference of any class is resolved before every entry of model_defs has
\* its class.
C1_DefineAllThenResolve ==
    /\ Len(local_context) <= Len(model_defs)
    /\ Keys(local_context) = SubSeq(Keys(model_defs), 1, Len(local_context))
    /\ (\E i \in 1..Len(local_context) : local_context[i][2].resolved) =>
           Len(local_context) = Len(model_defs)

C1_Witness ==
    /\ pc = "returned"
    /\ Keys(returned) = <<s_A, s_B>>
    /\ Lookup(returned, s_A).refs = {s_B}
    /\ Lookup(returned, s_B).refs = {s_A}
    /\ \A i \in 1..Len(returned) : returned[i][2].resolved

AllRefsAreKeys ==
    \A i \in 1..Len(model_defs) :
        ForwardRefs(model_defs[i][2].body) \subseteq KeySet(model_defs)

\* C3: build_models returns a mapping exactly when every quoted name in
\* every field of every record is a key of model_defs, and otherwise ends
\* with an unresolved-reference error and no mapping.
C3_BuildSucceedsIffRefsAreKeys ==
    /\ pc = "returned" => AllRefsAreKeys
    /\ (pc = "raised" /\ exc = "NameError") =>
           (~AllRefsAreKeys /\ returned = None)

RECURSIVE IsUntypedOrHoldsUntyped(_)
\* A field node that has neither "type" nor "$ref", or an object or array
\* node with such a node below it, under "properties" or "items".
IsUntypedOrHoldsUntyped(node) ==
    \/ "type" \notin DOMAIN node /\ "$ref" \notin DOMAIN node
    \/ /\ "type" \in DOMAIN node
       /\ node["type"] = s_object
       /\ "properties" \in DOMAIN node
       /\ \E i \in 1..Len(node["properties"]) :
              IsUntypedOrHoldsUntyped(node["properties"][i][2])
    \/ /\ "type" \in DOMAIN node
       /\ node["type"] = s_array
       /\ "items" \in DOMAIN node
       /\ IsUntypedOrHoldsUntyped(node["items"])

HasUntypedFieldNode(document) ==
    \E i \in 1..Len(document) :
        /\ "properties" \in DOMAIN document[i][2]
        /\ \E j \in 1..Len(document[i][2]["properties"]) :
               IsUntypedOrHoldsUntyped(document[i][2]["properties"][j][2])

\* C4: when some field node of the input has neither "type" nor "$ref", the
\* parser is never constructed: the call ends with the error, nothing is
\* written and no mapping is returned.
C4_UntypedNodeFailsWholeBuild ==
    HasUntypedFieldNode(schemas) =>
        /\ pc \in {"parsing", "raised"}
        /\ pc = "raised" => exc = "KeyError"
        /\ sink = None
        /\ returned = None
        /\ local_context = <<>>

C4_Witness ==
    /\ HasUntypedFieldNode(schemas)
    /\ pc = "raised"
    /\ exc = "KeyError"
    /\ Len(model_defs) >= 2
    /\ parse_i = 2
    /\ sink = None
    /\ returned = None

FirstInsertOf(k) == CHOOSE i \in 1..Len(inserts) :
    inserts[i][1] = k /\ \A j \in 1..Len(inserts) : inserts[j][1] = k => i <= j

LastInsertOf(k) == CHOOSE i \in 1..Len(inserts) :
    inserts[i][1] = k /\ \A j \in 1..Len(inserts) : inserts[j][1] = k => j <= i

\* C6: model_defs holds one entry for each name ever inserted and no other,
\* each with the definition of the latest insertion under its name, in the
\* order in which the names were first inserted.
C6_RegistryLastWriteWins ==
    /\ \A i, j \in 1..Len(model_defs) :
           model_defs[i][1] = model_defs[j][1] => i = j
    /\ KeySet(model_defs) = {inserts[i][1] : i \in 1..Len(inserts)}
    /\ \A i \in 1..Len(model_defs) :
           model_defs[i][2] = inserts[LastInsertOf(model_defs[i][1])][2]
    /\ \A i, j \in 1..Len(model_defs) :
           i < j => FirstInsertOf(model_defs[i][1])
                      < FirstInsertOf(model_defs[j][1])

C6_Witness ==
    /\ Len(model_defs) >= 3
    /\ \E i, j \in 1..Len(inserts) :
           /\ i < j
           /\ inserts[i][1] = inserts[j][1]
           /\ inserts[i][2] # inserts[j][2]
           /\ model_defs[1][1] = inserts[i][1]
           /\ model_defs[1][2] = inserts[j][2]

====
